---- MODULE Spec2Model ----
(***************************************************************************)
(* LocalProject (src/src/api/LocalProject.js): the "build locally, compile *)
(* remotely" action pipeline of Code for IBM i.                            *)
(*                                                                         *)
(* Strings of the program are modelled as sequences of one-character       *)
(* strings, so that toUpperCase, includes, replace, join and path.parse    *)
(* are computed the way the JavaScript computes them.  An optional value   *)
(* (undefined / null / a missing file) is modelled as a sequence of length *)
(* 0 or 1: << >> is "absent", <<v>> is "present with value v".  The text   *)
(* of a file is one of a few texts, each known by a name, and a vscode.Uri *)
(* is known by a name too, fsPath giving its path.  The output channel     *)
(* (CompileTools.appendToOutputChannel) is write-only for this code and is *)
(* left out.  TLC evaluates the argument of an operator where it is used:  *)
(* a text that is costly to build is bound with \E x \in {text}, which     *)
(* builds it once.                                                         *)
(*                                                                         *)
(* Spec is the program: init, the developer editing .vscode/ibmi.json, and *)
(* one invocation of RunAction at a time, step by step from await to       *)
(* await.  SpecConcurrent has two invocations of RunAction under way.  The *)
(* other specifications apply one function of the program to a range of    *)
(* arguments: SpecTemplate, SpecLibl, SpecDiscover, SpecApplicable,        *)
(* SpecDescribe, SpecUpload and SpecOverlay.                               *)
(***************************************************************************)
EXTENDS Integers, Sequences, FiniteSets, TLC

VARIABLES
    projectEnabled,   \* line 10: the module-level flag
    workspaceFolders, \* line 33: vscode.workspace.workspaceFolders.length
    jsonFile,         \* .vscode/ibmi.json: << >> missing, <<t>> holding text t
    envFile,          \* .env: << >> missing, <<t>> holding text t
    libraryList,      \* instance.getConfig().libraryList (line 219)
    pc,               \* position of the RunAction invocation
    documentUri,      \* << >> or the Uri RunAction was called with
    projConfig,       \* line 245: << >> before getConfig, else its result
    chosenOptionName, \* line 252: << >> is undefined
    allUploads,       \* line 264: sequence of Uris
    creations,        \* line 386: state of each paseCommand promise
    uploads,          \* line 387: state of each uploadMemberContent promise
    libl,             \* line 303: the library list built for the run
    logCompileOutput, \* line 327: << >> until Configuration.get is read
    log,              \* the external calls of the run, in order
    commandResult,    \* line 328: << >> until qshCommand settles
    prompt,           \* line 370: the "create one?" notification is open
    tplIn,            \* inputs of the command templating (lines 290-295)
    tplOut,           \* its result, << >> before it ran
    liblIn,           \* inputs of the library list construction (303-312)
    liblOut,          \* its result, << >> before it ran
    callIn,           \* arguments of a function applied on its own
    callOut,          \* its result, << >> before it ran
    parked            \* the locals of a second invocation of RunAction

vars == <<projectEnabled, workspaceFolders, jsonFile, envFile, libraryList, pc,
          documentUri, projConfig, chosenOptionName, allUploads, creations, uploads,
          libl, logCompileOutput, log, commandResult, prompt, tplIn, tplOut, liblIn,
          liblOut, callIn, callOut, parked>>

-----------------------------------------------------------------------------
(* Strings *)

Lower == <<"a","b","c","d","e","f","g","h","i","j","k","l","m","n","o","p","q","r","s","t","u","v","w","x","y","z">>
Upper == <<"A","B","C","D","E","F","G","H","I","J","K","L","M","N","O","P","Q","R","S","T","U","V","W","X","Y","Z">>

UpperChar(c) ==
    IF \E i \in 1..Len(Lower) : Lower[i] = c
    THEN Upper[CHOOSE i \in 1..Len(Lower) : Lower[i] = c]
    ELSE c

\* String.prototype.toUpperCase
toUpperCase(s) == [i \in 1..Len(s) |-> UpperChar(s[i])]

\* s has t at (1-based) position i
StartsAt(s, i, t) ==
    /\ i + Len(t) - 1 <= Len(s)
    /\ \A k \in 1..Len(t) : s[i + k - 1] = t[k]

\* String.prototype.includes
includes(s, t) == \E i \in 1..(Len(s) + 1) : StartsAt(s, i, t)

\* String.prototype.substring(from) with a 0-based from
substring(s, from) == IF from >= Len(s) THEN << >> ELSE SubSeq(s, from + 1, Len(s))

\* The largest position of character c in s, 0 when there is none
LastIndexOf(s, c) ==
    IF \E i \in 1..Len(s) : s[i] = c
    THEN CHOOSE i \in 1..Len(s) : s[i] = c /\ \A j \in (i + 1)..Len(s) : s[j] # c
    ELSE 0

RECURSIVE join(_, _)
\* Array.prototype.join
join(list, sep) ==
    IF Len(list) = 0 THEN << >>
    ELSE IF Len(list) = 1 THEN list[1]
    ELSE list[1] \o sep \o join(Tail(list), sep)

RECURSIVE GetSubstitution(_, _, _)
\* The expansion of the replacement text of String.prototype.replace for a
\* pattern without capture groups: $$ is $, $& the match, $' the text after
\* the match; any other $ stays.  ($ before a grave accent is the text
\* before the match; no text of the model holds a grave accent.)
GetSubstitution(repl, matched, after) ==
    IF Len(repl) = 0 THEN << >>
    ELSE IF repl[1] = "$" /\ Len(repl) >= 2 /\ repl[2] \in {"$", "&", "'"}
    THEN (CASE repl[2] = "$" -> <<"$">>
            [] repl[2] = "&" -> matched
            [] repl[2] = "'" -> after)
         \o GetSubstitution(SubSeq(repl, 3, Len(repl)), matched, after)
    ELSE <<repl[1]>> \o GetSubstitution(Tail(repl), matched, after)

RECURSIVE ReplaceFrom(_, _, _, _)
\* The global replace from position i on: the text up to the next match,
\* the expansion of the replacement, and the same after the match
ReplaceFrom(s, i, tok, repl) ==
    IF \E j \in i..Len(s) : StartsAt(s, j, tok)
    THEN LET j == CHOOSE j \in i..Len(s) :
                    StartsAt(s, j, tok) /\ \A k \in i..(j - 1) : ~StartsAt(s, k, tok)
         IN  SubSeq(s, i, j - 1)
             \o GetSubstitution(repl, tok, SubSeq(s, j + Len(tok), Len(s)))
             \o ReplaceFrom(s, j + Len(tok), tok, repl)
    ELSE SubSeq(s, i, Len(s))

\* s.replace(new RegExp(tok, `g`), repl) for a token without regex operators
replace(s, tok, repl) == ReplaceFrom(s, 1, tok, repl)

-----------------------------------------------------------------------------
(* path (posix) *)

\* path.parse(p): dir, base, ext and name
pathParse(p) ==
    LET slash == LastIndexOf(p, "/")
        dir   == IF slash = 0 THEN << >>
                 ELSE IF slash = 1 THEN <<"/">>
                 ELSE SubSeq(p, 1, slash - 1)
        base  == SubSeq(p, slash + 1, Len(p))
        dot   == LastIndexOf(base, ".")
        ext   == IF dot <= 1 THEN << >> ELSE SubSeq(base, dot, Len(base))
    IN  [dir |-> dir, base |-> base, ext |-> ext,
         name |-> SubSeq(base, 1, Len(base) - Len(ext))]

\* path.basename(p) of a path without trailing separator
pathBasename(p) == SubSeq(p, LastIndexOf(p, "/") + 1, Len(p))

-----------------------------------------------------------------------------
(* Tokens *)

TokBUILDLIB == <<"&","B","U","I","L","D","L","I","B">>
TokFOLDER   == <<"&","F","O","L","D","E","R">>
TokNAME     == <<"&","N","A","M","E">>
TokEXT      == <<"&","E","X","T">>
TokCURLIB   == <<"&","C","U","R","L","I","B">>
TokEVENTF   == <<"*","E","V","E","N","T","F">>

\* Lines 290-295: the four successive whole-string replacements
BuildCommand(template, buildLibrary, folder, name, ext) ==
    LET c1 == replace(template, TokBUILDLIB, toUpperCase(buildLibrary))
        c2 == replace(c1, TokFOLDER, folder)
        c3 == replace(c2, TokNAME, name)
    IN  replace(c3, TokEXT, ext)

-----------------------------------------------------------------------------
(* The catalog written by createConfig, lines 135-187 *)

DefaultAction1 ==
    [name |-> "Compile: CRTSQLRPGI (Program)",
     command |-> <<"C","R","T","S","Q","L","R","P","G","I"," ","O","B","J","(","&","B","U","I","L","D","L","I","B","/","&","N","A","M","E",")"," ","S","R","C","F","I","L","E","(","&","B","U","I","L","D","L","I","B","/","&","F","O","L","D","E","R",")"," ","C","L","O","S","Q","L","C","S","R","(","*","E","N","D","M","O","D",")"," ","O","P","T","I","O","N","(","*","E","V","E","N","T","F",")"," ","D","B","G","V","I","E","W","(","*","S","O","U","R","C","E",")"," ","T","G","T","R","L","S","(","*","C","U","R","R","E","N","T",")">>,
     fileSystem |-> "qsys", commandEnvironment |-> "qsys",
     extensions |-> <<<<<<"s","q","l","r","p","g","l","e">>>>>>]

DefaultAction2 ==
    [name |-> "Compile: CRTBNDRPG",
     command |-> <<"C","R","T","B","N","D","R","P","G"," ","P","G","M","(","&","B","U","I","L","D","L","I","B","/","&","N","A","M","E",")"," ","S","R","C","F","I","L","E","(","&","B","U","I","L","D","L","I","B","/","&","F","O","L","D","E","R",")"," ","S","R","C","M","B","R","(","&","N","A","M","E",")"," ","O","P","T","I","O","N","(","*","E","V","E","N","T","F",")"," ","D","B","G","V","I","E","W","(","*","S","O","U","R","C","E",")">>,
     fileSystem |-> "qsys", commandEnvironment |-> "qsys",
     extensions |-> <<<<<<"r","p","g","l","e">>>>>>]

DefaultAction3 ==
    [name |-> "Compile: CRTRPGMOD",
     command |-> <<"C","R","T","R","P","G","M","O","D"," ","M","O","D","(","&","B","U","I","L","D","L","I","B","/","&","N","A","M","E",")"," ","S","R","C","F","I","L","E","(","&","B","U","I","L","D","L","I","B","/","&","F","O","L","D","E","R",")"," ","S","R","C","M","B","R","(","&","N","A","M","E",")"," ","O","P","T","I","O","N","(","*","E","V","E","N","T","F",")"," ","D","B","G","V","I","E","W","(","*","S","O","U","R","C","E",")">>,
     fileSystem |-> "qsys", commandEnvironment |-> "qsys",
     extensions |-> <<<<<<"r","p","g","l","e">>>>>>]

DefaultAction4 ==
    [name |-> "Compile: CRTBNDCBL",
     command |-> <<"C","R","T","B","N","D","C","B","L"," ","(","&","B","U","I","L","D","L","I","B","/","&","N","A","M","E",")"," ","S","R","C","F","I","L","E","(","&","B","U","I","L","D","L","I","B","/","&","F","O","L","D","E","R",")"," ","O","P","T","I","O","N","(","*","S","O","U","R","C","E"," ","*","E","V","E","N","T","F",")"," ","D","B","G","V","I","E","W","(","*","S","O","U","R","C","E",")">>,
     fileSystem |-> "qsys", commandEnvironment |-> "qsys",
     extensions |-> <<<<<<"c","b","l">>, <<"c","b","b","l","e">>, <<"c","o","b">>>>>>]

DefaultAction5 ==
    [name |-> "Compile: CRTCMD",
     command |-> <<"C","R","T","C","M","D"," ","C","M","D","(","&","B","U","I","L","D","L","I","B","/","&","N","A","M","E",")"," ","P","G","M","(","&","B","U","I","L","D","L","I","B","/","&","N","A","M","E",")"," ","S","R","C","F","I","L","E","(","&","B","U","I","L","D","L","I","B","/","&","F","O","L","D","E","R",")"," ","A","L","L","O","W","(","*","A","L","L",")"," ","C","U","R","L","I","B","(","*","N","O","C","H","G",")"," ","P","R","D","L","I","B","(","*","N","O","C","H","G",")">>,
     fileSystem |-> "qsys", commandEnvironment |-> "qsys",
     extensions |-> <<<<<<"c","m","d">>>>>>]

DefaultAction6 ==
    [name |-> "Compile: CRTBNDCL",
     command |-> <<"C","R","T","B","N","D","C","L"," ","P","G","M","(","&","B","U","I","L","D","L","I","B","/","&","N","A","M","E",")"," ","S","R","C","F","I","L","E","(","&","B","U","I","L","D","L","I","B","/","&","F","O","L","D","E","R",")"," ","O","P","T","I","O","N","(","*","E","V","E","N","T","F",")"," ","D","B","G","V","I","E","W","(","*","S","O","U","R","C","E",")">>,
     fileSystem |-> "qsys", commandEnvironment |-> "qsys",
     extensions |-> <<<<<<"c","l">>, <<"c","l","l","e">>>>>>]

DefaultAction7 ==
    [name |-> "Compile: CRTPGM",
     command |-> <<"C","R","T","P","G","M"," ","P","G","M","(","&","B","U","I","L","D","L","I","B","/","&","N","A","M","E",")"," ","M","O","D","U","L","E","(","*","P","G","M",")"," ","E","N","T","M","O","D","(","*","F","I","R","S","T",")"," ","B","N","D","S","R","V","P","G","M","(","*","N","O","N","E",")"," ","B","N","D","D","I","R","(","*","N","O","N","E",")"," ","A","C","T","G","R","P","(","*","E","N","T","M","O","D",")"," ","T","G","T","R","L","S","(","*","C","U","R","R","E","N","T",")">>,
     fileSystem |-> "qsys", commandEnvironment |-> "qsys",
     extensions |-> << >>]

DefaultConfig ==
    [buildLibrary |-> <<"B","U","I","L","D","L","I","B">>,
     actions |-> <<DefaultAction1, DefaultAction2, DefaultAction3, DefaultAction4,
                   DefaultAction5, DefaultAction6, DefaultAction7>>]

\* Lines 196-204: the starter .env
DefaultEnv ==
    <<"#"," ","T","H","I","S"," ","F","I","L","E"," ","B","E","L","O","N","G","S"," ","I","N"," ","T","H","E"," ",".","g","i","t","i","g","n","o","r","e","!","\n","#"," ","V","a","r","i","a","b","l","e","s"," ","f","o","r"," ","t","h","e"," ","l","o","c","a","l"," ","I","B","M"," ","i"," ","p","r","o","j","e","c","t","\n","#"," ","T","h","i","s"," ","f","i","l","e"," ","i","s"," ","a","u","t","o","m","a","t","i","c","a","l","l","y"," ","g","e","n","e","r","a","t","e","d"," ","b","y"," ","C","o","d","e"," ","f","o","r"," ","I","B","M"," ","i","\n","\n","#"," ","B","U","I","L","D","L","I","B"," ","i","s"," ","r","e","f","e","r","e","n","c","e","d"," ","i","n"," ","t","h","e"," ",".","v","s","c","o","d","e","/","i","b","m","i",".","j","s","o","n"," ","c","o","n","f","i","g"," ","f","i","l","e",".","\n","#"," ",".","e","n","v"," ","a","l","l","o","w","s"," ","d","e","v","e","l","o","p","e","r","s"," ","t","o"," ","e","a","c","h"," ","c","o","n","f","i","g","u","r","e"," ","w","h","e","r","e"," ","t","o"," ","b","u","i","l","d"," ","t","h","e","i","r"," ","o","b","j","e","c","t","s","\n","B","U","I","L","D","L","I","B","=","D","E","V","L","I","B">>

-----------------------------------------------------------------------------
(* The files of the workspace *)

\* A configuration a developer wrote: a lower-case build library that the
\* .env may override, an action on the ifs file system, an action in another
\* command environment and an action for one extension.
CustomConfig ==
    [buildLibrary |-> <<"d","e","v","l","i","b">>,
     actions |-> <<
        [name |-> "make", command |-> <<"m","a","k","e"," ","&","N","A","M","E">>,
         fileSystem |-> "ifs", commandEnvironment |-> "qsys", extensions |-> << >>],
        [name |-> "gmake",
         command |-> <<"g","m","a","k","e"," ","&","N","A","M","E",".","&","E","X","T"," ","O","P","T","I","O","N","(","*","E","V","E","N","T","F",")">>,
         fileSystem |-> "qsys", commandEnvironment |-> "pase", extensions |-> << >>],
        [name |-> "crtcmd",
         command |-> <<"C","R","T","C","M","D"," ","C","M","D","(","&","B","U","I","L","D","L","I","B","/","&","N","A","M","E",")">>,
         fileSystem |-> "qsys", commandEnvironment |-> "qsys",
         extensions |-> <<<< <<"c","m","d">> >>>>] >>]

\* Configurations configValid rejects
NoLibraryConfig == [buildLibrary |-> << >>, actions |-> <<DefaultAction7>>]
NoActionsConfig == [buildLibrary |-> <<"B","U","I","L","D","L","I","B">>, actions |-> << >>]

\* The texts a developer gives .vscode/ibmi.json; "malformed" is a text that
\* is not JSON, such as a file cut short.  The text "default" is the one
\* createConfig writes.
JsonTexts == {"custom", "nolibrary", "noactions", "malformed"}

\* Line 96: JSON.parse throws a SyntaxError
JSONparseThrows(text) == text = "malformed"

\* Line 96: JSON.parse of the text of .vscode/ibmi.json
JSONparse(text) ==
    CASE text = "default"   -> DefaultConfig
      [] text = "custom"    -> CustomConfig
      [] text = "nolibrary" -> NoLibraryConfig
      [] text = "noactions" -> NoActionsConfig

CustomEnv == <<"#","x","\n","d","e","v","l","i","b","=","M","Y","L","I","B">>

\* The texts a developer gives .env; the text "default" is the one
\* createConfig writes
EnvTexts == {"custom"}

\* Line 104: the text of .env
EnvText(text) ==
    CASE text = "default" -> DefaultEnv
      [] text = "custom"  -> CustomEnv

RECURSIVE split(_, _)
\* String.prototype.split for a one-character separator
split(s, sep) ==
    IF \E i \in 1..Len(s) : s[i] = sep
    THEN LET i == CHOOSE k \in 1..Len(s) : s[k] = sep /\ \A j \in 1..(k - 1) : s[j] # sep
         IN  <<SubSeq(s, 1, i - 1)>> \o split(SubSeq(s, i + 1, Len(s)), sep)
    ELSE <<s>>

\* Lines 106-115: the entries of env in assignment order; value is << >>
\* when the line has no "="
parseEnv(readStr) ==
    LET envLines == split(readStr, "\n")
        Keep(line) == ~StartsAt(line, 1, <<"#">>)
        kept == SelectSeq(envLines, Keep)
    IN  [i \in 1..Len(kept) |->
            LET parts == split(kept[i], "=")
            IN  [key |-> parts[1],
                 value |-> IF Len(parts) >= 2 THEN <<parts[2]>> ELSE << >>]]

\* env[key]: the value of the last assignment to key, << >> when undefined
envGet(env, key) ==
    IF \E i \in 1..Len(env) : env[i].key = key
    THEN env[CHOOSE i \in 1..Len(env) :
                env[i].key = key /\ \A j \in (i + 1)..Len(env) : env[j].key # key].value
    ELSE << >>

\* Lines 106-123 for one value of the configuration: config[key] after the
\* loop, for the text readStr of .env.  env[value] must be truthy: a key
\* without "=" (undefined) and a key with nothing after "=" (the empty
\* string) leave the value as it is.
overlayValue(value, readStr) ==
    LET env == parseEnv(readStr)
        hit == envGet(env, value)
    IN  IF hit # << >> /\ hit[1] # << >> THEN hit[1] ELSE value

\* Lines 83-128.  The result is << >> without .vscode/ibmi.json (undefined
\* is returned) and when JSON.parse throws (nothing is returned);
\* otherwise the parsed configuration, its buildLibrary replaced when it is a
\* key of .env with a truthy value.  The actions stay those of the text.
getConfig(json, envf) ==
    IF json = << >> \/ JSONparseThrows(json[1]) THEN << >>
    ELSE LET config == JSONparse(json[1])
         IN  <<[text |-> json[1],
                buildLibrary |-> IF envf = << >> THEN config.buildLibrary
                                 ELSE overlayValue(config.buildLibrary,
                                                   EnvText(envf[1]))]>>

\* projConfig.actions
actionsOf(config) == JSONparse(config.text).actions

configValidLibraryOnly(config) == config.buildLibrary # << >>

\* Lines 42-48
configValid(config) ==
    config.buildLibrary # << >> /\ Len(actionsOf(config)) > 0

\* Line 250: the test of the filter; extensions is << >> when undefined
actionApplies(action, ext) ==
    \/ action.extensions = << >>
    \/ /\ Len(action.extensions[1]) > 0
       /\ \E i \in 1..Len(action.extensions[1]) : action.extensions[1][i] = ext

\* Lines 249-251: filter, then map to the names
availableNames(actions, ext) ==
    LET Applies(action) == actionApplies(action, ext)
        kept == SelectSeq(actions, Applies)
    IN  [i \in 1..Len(kept) |-> kept[i].name]

\* Lines 249-251
availableActions(config, ext) == availableNames(actionsOf(config), ext)

\* Line 255: Array.prototype.find by name
findAction(config, name) ==
    LET actions == actionsOf(config)
    IN  actions[CHOOSE i \in 1..Len(actions) :
                    actions[i].name = name /\ \A j \in 1..(i - 1) : actions[j].name # name]

-----------------------------------------------------------------------------
(* The inputs of a run *)

UriCust       == <<"/","w","/","Q","R","P","G","L","E","S","R","C","/","c","u","s","t",".","r","p","g","l","e">>
UriUtil       == <<"/","w","/","Q","R","P","G","L","E","S","R","C","/","u","t","i","l",".","r","p","g","l","e">>
\* A folder of 11 characters, a name of 11 characters, an extension of 7
UriLongFolder == <<"/","w","/","Q","R","P","G","L","E","S","R","C","1","1","/","c","u","s","t",".","r","p","g","l","e">>
UriLongName   == <<"/","w","/","s","r","c","/","c","u","s","t","o","m","e","r","s","0","1",".","r","p","g","l","e">>
UriLongExt    == <<"/","w","/","s","r","c","/","c","u","s","t",".","s","q","l","r","p","g","l">>

\* uri.fsPath
fsPath(uri) ==
    CASE uri = "cust"       -> UriCust
      [] uri = "util"       -> UriUtil
      [] uri = "longfolder" -> UriLongFolder
      [] uri = "longname"   -> UriLongName
      [] uri = "longext"    -> UriLongExt

\* The documents RunAction is called with
Documents == {"cust", "util", "longfolder", "longname", "longext"}

\* What vscode.workspace.findFiles(`**/*.*`) may return
FileLists == {<<"cust", "util">>, <<"util">>}

\* What the document may contain
Contents == {<<"c","a","l","l"," ","u","t","i","l">>, <<"r","e","t","u","r","n">>}

\* config.currentLibrary and connection.defaultUserLibraries
CurrentLibrary == <<"C","U","R">>
DefaultUserLibraries == << <<"Q","G","P","L">>, <<"Q","T","E","M","P">> >>

\* config.libraryList of the connection
RunLibraryLists ==
    { << <<"A">>, <<"B">>, TokCURLIB >>, << TokBUILDLIB, <<"Q","G","P","L">> >> }

\* commandResult.code: null is << >>
ExitCodes == {<<0>>, << >>, <<8>>, <<1>>}

-----------------------------------------------------------------------------
(* The steps of RunAction *)

MaxFolderLength == 10
MaxNameLength == 10
MaxExtLength == 6

FolderTooLongOffByOne(folder) == Len(folder) > MaxFolderLength + 1

ExtTooLongWithDot(ext) == Len(ext) + 1 > MaxExtLength

\* Line 227
FolderTooLong(folder) == Len(folder) > MaxFolderLength
\* Line 232
NameTooLong(name) == Len(name) > MaxNameLength
\* Line 237
ExtTooLong(ext) == Len(ext) > MaxExtLength

\* Lines 222-240: the error shown for the path of the target, << >> when
\* folder, name and extension fit
checkTarget(path) ==
    LET pathInfo == pathParse(path)
        folder == pathBasename(pathInfo.dir)
        name == toUpperCase(pathInfo.name)
        ext == substring(pathInfo.ext, 1)
    IN  IF FolderTooLong(folder) THEN <<"showErrorMessage:folder">>
        ELSE IF NameTooLong(name) THEN <<"showErrorMessage:name">>
        ELSE IF ExtTooLong(ext) THEN <<"showErrorMessage:ext">>
        ELSE << >>

\* Lines 222-225
folderOf(uri) == pathBasename(pathParse(fsPath(uri)).dir)
nameOf(uri) == toUpperCase(pathParse(fsPath(uri)).name)
extOf(uri) == substring(pathParse(fsPath(uri)).ext, 1)

\* Lines 264-271
dependencies(uri, content, fileList) ==
    LET Named(file) == includes(content, toUpperCase(pathParse(fsPath(file)).name))
    IN  <<uri>> \o SelectSeq(fileList, Named)

PromiseAllSettled(promises) ==
    IF \E i \in 1..Len(promises) : promises[i] = "pending" THEN "pending"
    ELSE "fulfilled"

\* Promise.all over promises that were all started: rejected as soon as one
\* is, fulfilled when all are
PromiseAll(promises) ==
    IF \E i \in 1..Len(promises) : promises[i] = "rejected" THEN "rejected"
    ELSE IF \E i \in 1..Len(promises) : promises[i] = "pending" THEN "pending"
    ELSE "fulfilled"

Reverse(list) == [i \in 1..Len(list) |-> list[Len(list) + 1 - i]]

BuildLibraryListInPlace(list, buildLibrary, currentLibrary) ==
    LET Rewrite(library) ==
            IF library = TokBUILDLIB THEN buildLibrary
            ELSE IF library = TokCURLIB THEN currentLibrary
            ELSE library
        reversed == Reverse(list)
    IN  [libl |-> [i \in 1..Len(list) |-> Rewrite(reversed[i])],
         libraryList |-> reversed]

\* Lines 303-312: the library list of the run, and config.libraryList after
\* it (slice(0) copies, so reverse() works on the copy)
BuildLibraryList(list, buildLibrary, currentLibrary) ==
    LET Rewrite(library) ==
            IF library = TokBUILDLIB THEN buildLibrary
            ELSE IF library = TokCURLIB THEN currentLibrary
            ELSE library
        reversed == Reverse(list)
    IN  [libl |-> [i \in 1..Len(list) |-> Rewrite(reversed[i])],
         libraryList |-> list]

QshScriptCommandFirst(cmd, logOutput, list) ==
    << <<"s","y","s","t","e","m"," ">>
          \o (IF logOutput THEN << >> ELSE <<"-","s">>)
          \o <<" ","\"">> \o cmd \o <<"\"">>,
       <<"l","i","b","l","i","s","t"," ","-","d"," ">> \o join(DefaultUserLibraries, <<" ">>),
       <<"l","i","b","l","i","s","t"," ","-","c"," ">> \o CurrentLibrary,
       <<"l","i","b","l","i","s","t"," ","-","a"," ">> \o join(list, <<" ">>) >>

\* Lines 327-333
QshScript(cmd, logOutput, list) ==
    << <<"l","i","b","l","i","s","t"," ","-","d"," ">> \o join(DefaultUserLibraries, <<" ">>),
       <<"l","i","b","l","i","s","t"," ","-","c"," ">> \o CurrentLibrary,
       <<"l","i","b","l","i","s","t"," ","-","a"," ">> \o join(list, <<" ">>),
       <<"s","y","s","t","e","m"," ">>
          \o (IF logOutput THEN << >> ELSE <<"-","s">>)
          \o <<" ","\"">> \o cmd \o <<"\"">> >>

ClassifyZeroOnly(code) == IF code = <<0>> THEN "success" ELSE "failure"

\* Line 342
Classify(code) == IF code = <<0>> \/ code = << >> THEN "success" ELSE "failure"

RefreshAlways == TRUE

DispatchUncaught == [pc |-> "threw", notify |-> << >>]

\* Lines 353-356: the catch of the try around the dispatch
DispatchCaught == [pc |-> "done", notify |-> <<"showErrorMessage:internal">>]

-----------------------------------------------------------------------------
(* State *)

runVars == <<pc, documentUri, projConfig, chosenOptionName, allUploads,
             creations, uploads, libl, logCompileOutput, log, commandResult>>
pureVars == <<tplIn, tplOut, liblIn, liblOut, callIn, callOut>>

\* No invocation of RunAction is under way
RunIdle ==
    /\ pc = "idle"
    /\ documentUri = << >>
    /\ projConfig = << >>
    /\ chosenOptionName = << >>
    /\ allUploads = << >>
    /\ creations = << >>
    /\ uploads = << >>
    /\ libl = << >>
    /\ logCompileOutput = << >>
    /\ log = << >>
    /\ commandResult = << >>

\* The locals of the invocation under way, as one value
run ==
    [pc |-> pc, documentUri |-> documentUri, projConfig |-> projConfig,
     chosenOptionName |-> chosenOptionName, allUploads |-> allUploads,
     creations |-> creations, uploads |-> uploads, libl |-> libl,
     logCompileOutput |-> logCompileOutput, log |-> log,
     commandResult |-> commandResult]

\* The locals of an invocation that has not started
idleRun ==
    [pc |-> "idle", documentUri |-> << >>, projConfig |-> << >>,
     chosenOptionName |-> << >>, allUploads |-> << >>, creations |-> << >>,
     uploads |-> << >>, libl |-> << >>, logCompileOutput |-> << >>,
     log |-> << >>, commandResult |-> << >>]

\* No function is applied on its own
NoCall == callIn = << >> /\ callOut = << >>

Init ==
    /\ projectEnabled = FALSE
    /\ workspaceFolders \in 0..2
    /\ parked = idleRun
    /\ NoCall
    /\ jsonFile \in {<< >>} \cup {<<t>> : t \in JsonTexts}
    /\ envFile \in {<< >>} \cup {<<t>> : t \in EnvTexts}
    /\ libraryList \in RunLibraryLists
    /\ RunIdle
    /\ prompt = FALSE
    /\ tplIn = << >>
    /\ tplOut = << >>
    /\ liblIn = << >>
    /\ liblOut = << >>

hasWorkspaceAtLeastOne(folders) == folders >= 1

\* Lines 32-34
hasWorkspace(folders) == folders = 1

createConfigOverwrites(json, envf) == [json |-> <<"default">>, env |-> <<"default">>]

\* Lines 130-208: the files after createConfig
createConfig(json, envf) ==
    [json |-> <<"default">>,
     env  |-> IF envf = << >> THEN <<"default">> ELSE envf]

\* Lines 13-30
init ==
    \E isProject \in {"Yes", "No", "undefined"} :
        /\ IF hasWorkspace(workspaceFolders)
           THEN IF jsonFile # << >>
                THEN projectEnabled' = TRUE /\ UNCHANGED <<jsonFile, envFile>>
                ELSE IF isProject = "Yes"
                     THEN /\ projectEnabled' = TRUE
                          /\ jsonFile' = createConfig(jsonFile, envFile).json
                          /\ envFile' = createConfig(jsonFile, envFile).env
                     ELSE UNCHANGED <<projectEnabled, workspaceFolders, parked, jsonFile, envFile>>
           ELSE UNCHANGED <<projectEnabled, workspaceFolders, parked, jsonFile, envFile>>
        /\ UNCHANGED <<workspaceFolders, parked, libraryList, runVars, prompt, pureVars>>

\* The developer rewrites or deletes .vscode/ibmi.json
EditJson ==
    /\ jsonFile' \in ({<< >>} \cup {<<t>> : t \in JsonTexts}) \ {jsonFile}
    /\ UNCHANGED <<projectEnabled, workspaceFolders, parked, envFile, libraryList, runVars, prompt, pureVars>>

\* Lines 214-240: the call of RunAction up to its first await
RunAction ==
    /\ pc = "idle"
    /\ \E uri \in Documents :
        /\ documentUri' = <<uri>>
        /\ IF ~projectEnabled
           THEN pc' = "done" /\ log' = log
           ELSE IF checkTarget(fsPath(uri)) # << >>
           THEN pc' = "done" /\ log' = log \o checkTarget(fsPath(uri))
           ELSE pc' = "configExists" /\ log' = log
    /\ UNCHANGED <<projectEnabled, workspaceFolders, parked, jsonFile, envFile, libraryList, projConfig,
                   chosenOptionName, allUploads, creations, uploads, libl,
                   logCompileOutput, prompt, commandResult, pureVars>>

\* Lines 242-244 and 369-375
ConfigExists ==
    /\ pc = "configExists"
    /\ IF jsonFile # << >>
       THEN /\ pc' = "getConfig"
            /\ log' = Append(log, "configExists")
            /\ UNCHANGED prompt
       ELSE /\ pc' = "done"
            /\ log' = log \o <<"configExists", "showInformationMessage:noConfig">>
            /\ prompt' = TRUE
    /\ UNCHANGED <<projectEnabled, workspaceFolders, parked, jsonFile, envFile, libraryList, documentUri,
                   projConfig, chosenOptionName, allUploads, creations, uploads,
                   libl, logCompileOutput, commandResult, pureVars>>

\* Lines 370-374: the answer to the notification
PromptAnswered ==
    /\ prompt
    /\ prompt' = FALSE
    /\ \E result \in {"Yes", "undefined"} :
        IF result = "Yes"
        THEN /\ jsonFile' = createConfig(jsonFile, envFile).json
             /\ envFile' = createConfig(jsonFile, envFile).env
        ELSE UNCHANGED <<jsonFile, envFile>>
    /\ UNCHANGED <<projectEnabled, workspaceFolders, parked, libraryList, runVars, pureVars>>

\* Lines 245-252 and 365-367.  Without the file getConfig returns undefined
\* and configValid throws on config.buildLibrary; with a text that is not
\* JSON getConfig throws.  Neither call is inside a try.
GetConfig ==
    /\ pc = "getConfig"
    /\ projConfig' = getConfig(jsonFile, envFile)
    /\ IF projConfig' = << >>
       THEN pc' = "threw" /\ log' = Append(log, "getConfig")
       ELSE IF configValid(projConfig'[1])
       THEN pc' = "showQuickPick" /\ log' = log \o <<"getConfig", "showQuickPick">>
       ELSE pc' = "done" /\ log' = log \o <<"getConfig", "showWarningMessage:config">>
    /\ UNCHANGED <<projectEnabled, workspaceFolders, parked, jsonFile, envFile, libraryList, documentUri,
                   chosenOptionName, allUploads, creations, uploads, libl,
                   logCompileOutput, prompt, commandResult, pureVars>>

\* Lines 252-255: the developer picks one of the names offered, or none
ShowQuickPick ==
    /\ pc = "showQuickPick"
    /\ LET offered == availableActions(projConfig[1], extOf(documentUri[1]))
       IN  \/ /\ chosenOptionName' = << >>
              /\ pc' = "done"
           \/ \E i \in 1..Len(offered) :
              /\ chosenOptionName' = <<offered[i]>>
              /\ pc' = "findFiles"
    /\ UNCHANGED <<projectEnabled, workspaceFolders, parked, jsonFile, envFile, libraryList, documentUri,
                   projConfig, allUploads, creations, uploads, libl, logCompileOutput,
                   log, prompt, commandResult, pureVars>>

\* The action chosen, line 255
action == findAction(projConfig[1], chosenOptionName[1])

\* Lines 283-286: the catch around the upload
UploadFailed ==
    /\ pc' = "done"
    /\ log' = Append(log, "showErrorMessage:upload")
    /\ UNCHANGED <<libl, logCompileOutput, libraryList>>

\* Lines 290-295: the command built for the run
builtCommand ==
    BuildCommand(action.command, projConfig[1].buildLibrary,
                 folderOf(documentUri[1]), nameOf(documentUri[1]),
                 extOf(documentUri[1]))

\* Lines 328-333: the commands given to qshCommand, << >> before the call.
\* Nothing they are made of changes between the call and the end of the run.
script ==
    IF logCompileOutput = << >> THEN << >>
    ELSE QshScript(builtCommand, logCompileOutput[1], libl)

\* The command variable from line 327 on
command == IF logCompileOutput = << >> THEN << >> ELSE script[4]

\* command.includes(text)
commandIncludes(text) == \E cmd \in {command} : includes(cmd, text)

\* Lines 290-340: the command, the library list and the dispatch
Dispatch ==
    LET built == BuildLibraryList(libraryList, projConfig[1].buildLibrary,
                                  CurrentLibrary)
    IN  /\ libl' = built.libl
        /\ libraryList' = built.libraryList
        /\ IF action.commandEnvironment = "qsys"
           THEN /\ logCompileOutput' \in {<<TRUE>>, <<FALSE>>}
                /\ log' = Append(log, "qshCommand")
                /\ pc' = "qshCommand"
           ELSE /\ logCompileOutput' = << >>
                /\ log' = Append(log, "showErrorMessage:unsupported")
                /\ pc' = "done"

\* Lines 258-286: the workspace listing and the document are read, the
\* upload set is built, and the switch on action.fileSystem either enters
\* uploadQsys or, for any other value, does nothing and goes on
ReadWorkspace ==
    /\ pc = "findFiles"
    /\ \E fileList \in FileLists, docBytes \in Contents, readable \in BOOLEAN :
        IF ~readable
        THEN /\ pc' = "threw"
             /\ UNCHANGED <<allUploads, libl, logCompileOutput, log, libraryList>>
        ELSE /\ allUploads' = dependencies(documentUri[1], toUpperCase(docBytes), fileList)
             /\ IF action.fileSystem = "qsys"
                THEN /\ pc' = "uploadQsys"
                     /\ UNCHANGED <<libl, logCompileOutput, log, libraryList>>
                ELSE Dispatch
    /\ UNCHANGED <<projectEnabled, workspaceFolders, parked, jsonFile, envFile, documentUri, projConfig,
                   chosenOptionName, creations, uploads, prompt, commandResult, pureVars>>

\* Lines 397-407: one turn of the loop of uploadQsys.  The file is read;
\* then both remote operations of the file are started and their promises
\* kept.  A read that fails rejects uploadQsys.
UploadLoop ==
    /\ pc = "uploadQsys"
    /\ Len(creations) < Len(allUploads)
    /\ \E readable \in BOOLEAN :
        IF readable
        THEN /\ creations' = Append(creations, "pending")
             /\ uploads' = Append(uploads, "pending")
             /\ UNCHANGED <<pc, log, libl, logCompileOutput, libraryList>>
        ELSE /\ UploadFailed
             /\ UNCHANGED <<creations, uploads>>
    /\ UNCHANGED <<projectEnabled, workspaceFolders, parked, jsonFile, envFile, documentUri, projConfig,
                   chosenOptionName, allUploads, prompt, commandResult, pureVars>>

\* Line 409
AwaitCreations ==
    /\ pc = "uploadQsys"
    /\ Len(creations) = Len(allUploads)
    /\ PromiseAll(creations) # "pending"
    /\ IF PromiseAll(creations) = "rejected"
       THEN UploadFailed
       ELSE pc' = "awaitUploads" /\ UNCHANGED <<log, libl, logCompileOutput, libraryList>>
    /\ UNCHANGED <<projectEnabled, workspaceFolders, parked, jsonFile, envFile, documentUri, projConfig,
                   chosenOptionName, allUploads, creations, uploads, prompt,
                   commandResult, pureVars>>

\* Line 410, and what follows the upload when it succeeded
AwaitUploads ==
    /\ pc = "awaitUploads"
    /\ PromiseAll(uploads) # "pending"
    /\ IF PromiseAll(uploads) = "rejected"
       THEN UploadFailed
       ELSE Dispatch
    /\ UNCHANGED <<projectEnabled, workspaceFolders, parked, jsonFile, envFile, documentUri, projConfig,
                   chosenOptionName, allUploads, creations, uploads, prompt,
                   commandResult, pureVars>>

\* The remote system answers an ADDPFM (line 405)
SettleCreation ==
    /\ \E i \in 1..Len(creations), outcome \in {"fulfilled", "rejected"} :
        /\ creations[i] = "pending"
        /\ creations' = [creations EXCEPT ![i] = outcome]
    /\ UNCHANGED <<projectEnabled, workspaceFolders, parked, jsonFile, envFile, libraryList, pc,
                   documentUri, projConfig, chosenOptionName, allUploads,
                   uploads, libl, logCompileOutput, log, prompt, commandResult, pureVars>>

\* The remote system answers an uploadMemberContent (line 406)
SettleUpload ==
    /\ \E i \in 1..Len(uploads), outcome \in {"fulfilled", "rejected"} :
        /\ uploads[i] = "pending"
        /\ uploads' = [uploads EXCEPT ![i] = outcome]
    /\ UNCHANGED <<projectEnabled, workspaceFolders, parked, jsonFile, envFile, libraryList, pc,
                   documentUri, projConfig, chosenOptionName, allUploads,
                   creations, libl, logCompileOutput, log, prompt, commandResult, pureVars>>

\* Line 360
ShouldRefresh == commandIncludes(TokEVENTF)

\* Lines 360-362
Diagnostics == IF ShouldRefresh THEN <<"refreshDiagnostics">> ELSE << >>

\* Lines 342-362: qshCommand returns a result
QshReturns ==
    /\ pc = "qshCommand"
    /\ \E code \in ExitCodes, autoRefresh \in BOOLEAN :
        /\ commandResult' = <<[settled |-> "fulfilled", code |-> code]>>
        /\ log' = log
               \o (IF Classify(code) = "success"
                   THEN <<"showInformationMessage:successful">>
                        \o (IF autoRefresh THEN <<"refreshObjectList">> ELSE << >>)
                   ELSE <<"showErrorMessage:notSuccessful">>)
               \o Diagnostics
    /\ pc' = "done"
    /\ UNCHANGED <<projectEnabled, workspaceFolders, parked, jsonFile, envFile, libraryList, documentUri,
                   projConfig, chosenOptionName, allUploads, creations, uploads,
                   libl, logCompileOutput, prompt, pureVars>>

\* Lines 353-362: qshCommand throws
QshThrows ==
    /\ pc = "qshCommand"
    /\ commandResult' = <<[settled |-> "rejected", code |-> << >>]>>
    /\ pc' = DispatchCaught.pc
    /\ log' = log \o DispatchCaught.notify
                  \o (IF DispatchCaught.pc = "done" THEN Diagnostics ELSE << >>)
    /\ UNCHANGED <<projectEnabled, workspaceFolders, parked, jsonFile, envFile, libraryList, documentUri,
                   projConfig, chosenOptionName, allUploads, creations, uploads,
                   libl, logCompileOutput, prompt, pureVars>>

\* The promise of RunAction is settled; the next invocation starts afresh
Return ==
    /\ pc \in {"done", "threw"}
    /\ pc' = "idle"
    /\ documentUri' = << >>
    /\ projConfig' = << >>
    /\ chosenOptionName' = << >>
    /\ allUploads' = << >>
    /\ creations' = << >>
    /\ uploads' = << >>
    /\ libl' = << >>
    /\ logCompileOutput' = << >>
    /\ log' = << >>
    /\ commandResult' = << >>
    /\ UNCHANGED <<projectEnabled, workspaceFolders, parked, jsonFile, envFile, libraryList, prompt, pureVars>>

Next ==
    \/ init
    \/ EditJson
    \/ RunAction
    \/ ConfigExists
    \/ PromptAnswered
    \/ GetConfig
    \/ ShowQuickPick
    \/ ReadWorkspace
    \/ UploadLoop
    \/ AwaitCreations
    \/ AwaitUploads
    \/ SettleCreation
    \/ SettleUpload
    \/ QshReturns
    \/ QshThrows
    \/ Return

Spec == Init /\ [][Next]_vars

-----------------------------------------------------------------------------
(* Two invocations of RunAction at a time.  The host calls RunAction again *)
(* while an invocation waits at an await.  Each invocation has its own     *)
(* locals (lines 216-322 declare them with const and let inside the        *)
(* function); projectEnabled, the two files and the libraryList of the     *)
(* connection are the same for both.  The steps above are those of the     *)
(* invocation whose locals are in pc ... commandResult; the locals of the  *)
(* other are in parked, and Switch is the event loop going from the one to *)
(* the other, which it may do at every await.                              *)

\* config.libraryList when the two invocations start
ConcurrentLibraryList == << <<"A">>, <<"B">>, TokCURLIB >>

InitConcurrent ==
    /\ projectEnabled = TRUE
    /\ workspaceFolders = 1
    /\ parked = idleRun
    /\ NoCall
    /\ jsonFile = <<"custom">>
    /\ envFile = <<"custom">>
    /\ libraryList = ConcurrentLibraryList
    /\ RunIdle
    /\ prompt = FALSE
    /\ tplIn = << >>
    /\ tplOut = << >>
    /\ liblIn = << >>
    /\ liblOut = << >>

\* The event loop leaves the invocation at its await and resumes the other
Switch ==
    /\ parked' = run
    /\ pc' = parked.pc
    /\ documentUri' = parked.documentUri
    /\ projConfig' = parked.projConfig
    /\ chosenOptionName' = parked.chosenOptionName
    /\ allUploads' = parked.allUploads
    /\ creations' = parked.creations
    /\ uploads' = parked.uploads
    /\ libl' = parked.libl
    /\ logCompileOutput' = parked.logCompileOutput
    /\ log' = parked.log
    /\ commandResult' = parked.commandResult
    /\ UNCHANGED <<projectEnabled, workspaceFolders, jsonFile, envFile, libraryList,
                   prompt, pureVars>>

NextConcurrent ==
    \/ RunAction
    \/ ConfigExists
    \/ GetConfig
    \/ ShowQuickPick
    \/ ReadWorkspace
    \/ UploadLoop
    \/ AwaitCreations
    \/ AwaitUploads
    \/ SettleCreation
    \/ SettleUpload
    \/ QshReturns
    \/ QshThrows
    \/ Return
    \/ Switch

SpecConcurrent == InitConcurrent /\ [][NextConcurrent]_vars

-----------------------------------------------------------------------------
(* The command templating on its own: lines 290-295 applied to templates   *)
(* made of the four tokens and other text, and to values a path and a      *)
(* configuration can give.                                                 *)

MaxPieces == 2

TemplatePieces == {TokBUILDLIB, TokFOLDER, TokNAME, TokEXT, <<"&">>, <<"/">>}

Templates ==
    {join(pieces, << >>) :
        pieces \in UNION {[1..n -> TemplatePieces] : n \in 0..MaxPieces}}

TemplateInputs ==
    [template : Templates,
     buildLibrary : {<<"d","e","v","l","i","b">>, <<"&","F","o","l","d","e","r">>},
     folder : {<<"Q","R","P","G","L","E","S","R","C">>, <<"&","N","A","M","E">>},
     name : {<<"C","U","S","T">>, <<"&","E","X","T">>},
     ext : {<<"r","p","g","l","e">>, <<"c","m","d">>}]

InitTemplate ==
    /\ projectEnabled = FALSE
    /\ workspaceFolders = 1
    /\ parked = idleRun
    /\ NoCall
    /\ jsonFile = << >>
    /\ envFile = << >>
    /\ libraryList = << >>
    /\ RunIdle
    /\ prompt = FALSE
    /\ tplIn \in TemplateInputs
    /\ tplOut = << >>
    /\ liblIn = << >>
    /\ liblOut = << >>

\* Lines 290-295
Template ==
    /\ tplOut = << >>
    /\ tplOut' = <<BuildCommand(tplIn.template, tplIn.buildLibrary, tplIn.folder,
                                tplIn.name, tplIn.ext)>>
    /\ UNCHANGED <<projectEnabled, workspaceFolders, parked, jsonFile, envFile,
                   libraryList, runVars, prompt, tplIn, liblIn, liblOut, callIn, callOut>>

SpecTemplate == InitTemplate /\ [][Template]_vars

-----------------------------------------------------------------------------
(* The library list construction on its own: lines 303-312 applied to      *)
(* every search list of at most MaxLibl entries.                           *)

MaxLibl == 3

LibraryNames == {<<"A">>, <<"B">>, TokCURLIB, TokBUILDLIB}

LibraryLists == UNION {[1..n -> LibraryNames] : n \in 0..MaxLibl}

InitLibl ==
    /\ projectEnabled = FALSE
    /\ workspaceFolders = 1
    /\ parked = idleRun
    /\ NoCall
    /\ jsonFile = << >>
    /\ envFile = << >>
    /\ libraryList = << >>
    /\ RunIdle
    /\ prompt = FALSE
    /\ tplIn = << >>
    /\ tplOut = << >>
    /\ liblIn \in [libraryList : LibraryLists,
                   buildLibrary : {<<"d","e","v","l","i","b">>},
                   currentLibrary : {CurrentLibrary}]
    /\ liblOut = << >>

\* Lines 303-312
Libl ==
    /\ liblOut = << >>
    /\ liblOut' = <<BuildLibraryList(liblIn.libraryList, liblIn.buildLibrary,
                                     liblIn.currentLibrary)>>
    /\ UNCHANGED <<projectEnabled, workspaceFolders, parked, jsonFile, envFile,
                   libraryList, runVars, prompt, tplIn, tplOut, liblIn, callIn, callOut>>

SpecLibl == InitLibl /\ [][Libl]_vars

-----------------------------------------------------------------------------
(* Functions of RunAction applied on their own *)

\* Everything but the arguments and the result of the function applied
restVars == <<projectEnabled, workspaceFolders, parked, jsonFile, envFile,
              libraryList, runVars, prompt, tplIn, tplOut, liblIn, liblOut>>

\* No run, no file and no other function
InitRest ==
    /\ projectEnabled = FALSE
    /\ workspaceFolders = 1
    /\ parked = idleRun
    /\ jsonFile = << >>
    /\ envFile = << >>
    /\ libraryList = << >>
    /\ RunIdle
    /\ prompt = FALSE
    /\ tplIn = << >>
    /\ tplOut = << >>
    /\ liblIn = << >>
    /\ liblOut = << >>

-----------------------------------------------------------------------------
(* The dependency scan on its own: lines 257-271 applied to a target, its  *)
(* text and a workspace listing of at most MaxFiles files.  cust.rpgle and *)
(* cust.sqlrpgl have the same base name.                                   *)

MaxFiles == 2

\* The files findFiles may list
WorkspaceFiles == {"cust", "util", "longext"}

WorkspaceListings == UNION {[1..n -> WorkspaceFiles] : n \in 0..MaxFiles}

\* What the target may contain: text that names util, the target itself,
\* both or neither
TargetContents ==
    Contents \cup {<<"c","a","l","l"," ","c","u","s","t">>,
                   <<"c","u","s","t",":"," ","u","t","i","l","(",")">>}

InitDiscover ==
    /\ InitRest
    /\ callIn \in [documentUri : {"cust", "util"}, docBytes : TargetContents,
                   fileList : WorkspaceListings]
    /\ callOut = << >>

\* Lines 257-271
Discover ==
    /\ callOut = << >>
    /\ callOut' = <<dependencies(callIn.documentUri, toUpperCase(callIn.docBytes),
                                 callIn.fileList)>>
    /\ UNCHANGED <<restVars, callIn>>

SpecDiscover == InitDiscover /\ [][Discover]_vars

-----------------------------------------------------------------------------
(* The choice of the actions offered on its own: lines 249-251 applied to  *)
(* every sequence of at most MaxActions actions whose extensions are       *)
(* undefined, empty, one extension or two.                                 *)

MaxActions == 2

ConfiguredActions ==
    {[name |-> "any", command |-> TokNAME, fileSystem |-> "qsys",
      commandEnvironment |-> "qsys", extensions |-> << >>],
     [name |-> "empty", command |-> TokNAME, fileSystem |-> "qsys",
      commandEnvironment |-> "qsys", extensions |-> << << >> >>],
     [name |-> "cmd", command |-> TokNAME, fileSystem |-> "qsys",
      commandEnvironment |-> "qsys", extensions |-> << << <<"c","m","d">> >> >>],
     [name |-> "rpgle or clle", command |-> TokNAME, fileSystem |-> "qsys",
      commandEnvironment |-> "qsys",
      extensions |-> << << <<"r","p","g","l","e">>, <<"c","l","l","e">> >> >>]}

ActionLists == UNION {[1..n -> ConfiguredActions] : n \in 0..MaxActions}

InitApplicable ==
    /\ InitRest
    /\ callIn \in [actions : ActionLists,
                   ext : {<<"c","m","d">>, <<"c","l","l","e">>, <<"c","b","l">>}]
    /\ callOut = << >>

\* Lines 249-251
Applicable ==
    /\ callOut = << >>
    /\ callOut' = <<availableNames(callIn.actions, callIn.ext)>>
    /\ UNCHANGED <<restVars, callIn>>

SpecApplicable == InitApplicable /\ [][Applicable]_vars

-----------------------------------------------------------------------------
(* The identifier checks on their own: lines 222-240 applied to the path   *)
(* of a file whose folder, name and extension are at, under and over the   *)
(* lengths allowed.                                                        *)

\* n times the character c
Repeat(c, n) == [i \in 1..n |-> c]

\* The path of the file name.ext (name, without extension) in folder
TargetPath(folder, name, ext) ==
    <<"/","w","/">> \o folder \o <<"/">> \o name
        \o (IF ext = << >> THEN << >> ELSE <<".">> \o ext)

InitDescribe ==
    /\ InitRest
    /\ callIn \in
        [folder : {Repeat("F", n) : n \in {1, MaxFolderLength - 1, MaxFolderLength,
                                           MaxFolderLength + 1}},
         name : {Repeat("n", n) : n \in {1, MaxNameLength - 1, MaxNameLength,
                                         MaxNameLength + 1}},
         ext : {Repeat("e", n) : n \in {0, 1, MaxExtLength - 1, MaxExtLength,
                                        MaxExtLength + 1}}]
    /\ callOut = << >>

\* Lines 222-240
Describe ==
    /\ callOut = << >>
    /\ callOut' = <<checkTarget(TargetPath(callIn.folder, callIn.name, callIn.ext))>>
    /\ UNCHANGED <<restVars, callIn>>

SpecDescribe == InitDescribe /\ [][Describe]_vars

-----------------------------------------------------------------------------
(* One turn of the loop of uploadQsys on its own: lines 398-406 applied to *)
(* the path of a file and a build library.                                 *)

\* Lines 398-406: the member created and the member written for a file
uploadQsysFile(buildLibrary, path) ==
    LET pathInfo == pathParse(path)
        name == pathInfo.name
        folder == pathBasename(pathInfo.dir)
        extension == pathInfo.ext
    IN  [paseCommand |->
            [text |-> <<"s","y","s","t","e","m"," ","-","s"," ","\"">>
                      \o <<"A","D","D","P","F","M"," ","F","I","L","E","(">>
                      \o buildLibrary \o <<"/">> \o folder
                      \o <<")"," ","M","B","R","(">> \o name
                      \o <<")"," ","S","R","C","T","Y","P","E","(">> \o extension
                      \o <<")","\"">>,
             library |-> buildLibrary, folder |-> folder, name |-> name,
             extension |-> extension],
         uploadMemberContent |->
            [library |-> buildLibrary, folder |-> folder, name |-> name]]

InitUpload ==
    /\ InitRest
    /\ callIn \in
        [buildLibrary : {<<"M","Y","L","I","B">>, <<"d","e","v","l","i","b">>},
         folder : {<<"Q","R","P","G","L","E","S","R","C">>, <<"q","c","l","s","r","c">>,
                   <<"s","r","c">>},
         name : {<<"c","u","s","t">>, <<"U","t","i","l">>, <<"O","R","D","E","R","S">>,
                 <<"c","u","s","t","0","1">>},
         ext : {<< >>, <<"r","p","g","l","e">>, <<"R","P","G","L","E">>,
                <<"c","l","l","e">>, <<"c","m","d">>}]
    /\ callOut = << >>

\* Lines 398-406
Upload ==
    /\ callOut = << >>
    /\ callOut' = <<uploadQsysFile(callIn.buildLibrary,
                                   TargetPath(callIn.folder, callIn.name, callIn.ext))>>
    /\ UNCHANGED <<restVars, callIn>>

SpecUpload == InitUpload /\ [][Upload]_vars

-----------------------------------------------------------------------------
(* The overlay on its own: lines 106-123 applied to a value of the         *)
(* configuration and to every text of .env of at most MaxEnvLines lines.   *)

MaxEnvLines == 2

\* Lines of .env: a comment, assignments to the key devlib (one of them
\* with "=" in its value, one with no value), an assignment to another key
\* and a line without "="
EnvLines ==
    {<<"#","d","e","v","l","i","b","=","N","O">>,
     <<"d","e","v","l","i","b","=","M","Y","L","I","B">>,
     <<"d","e","v","l","i","b","=","O","P","T","=","1">>,
     <<"d","e","v","l","i","b","=">>,
     <<"o","t","h","e","r","=","X">>,
     <<"d","e","v","l","i","b">>}

EnvFiles ==
    {join(lines, <<"\n">>) :
        lines \in UNION {[1..n -> EnvLines] : n \in 0..MaxEnvLines}}

InitOverlay ==
    /\ InitRest
    /\ callIn \in [value : {<<"d","e","v","l","i","b">>, <<"o","t","h","e","r">>,
                            <<"B","U","I","L","D","L","I","B">>},
                   readStr : EnvFiles]
    /\ callOut = << >>

\* Lines 106-123
Overlay ==
    /\ callOut = << >>
    /\ callOut' = <<overlayValue(callIn.value, callIn.readStr)>>
    /\ UNCHANGED <<restVars, callIn>>

SpecOverlay == InitOverlay /\ [][Overlay]_vars

-----------------------------------------------------------------------------
(* Properties *)

Logged(event) == \E i \in 1..Len(log) : log[i] = event

Settled(promises) == \A i \in 1..Len(promises) : promises[i] # "pending"

\* C1: in uploadQsys no content push (uploadMemberContent) is started before
\* every container creation (ADDPFM) of the whole file set has completed.
\* The loop of lines 397-407 starts both operations of a file in the same
\* turn, so this does not hold of the code.
C1_CreationsCompleteBeforeAnyPush ==
    Len(uploads) > 0 =>
        /\ Len(creations) = Len(allUploads)
        /\ Settled(creations)

\* C2: when the folder of the target has more than 10 characters, its name
\* more than 10 or its extension more than 6, the run is over at once: no
\* configuration lookup, no upload operation and no remote command occurs.
C2_TooLongAbortsBeforeAnyLookup ==
    (/\ pc # "idle"
     /\ projectEnabled
     /\ \/ Len(folderOf(documentUri[1])) > 10
        \/ Len(nameOf(documentUri[1])) > 10
        \/ Len(extOf(documentUri[1])) > 6)
    => /\ pc = "done"
       /\ ~Logged("configExists")
       /\ ~Logged("getConfig")
       /\ ~Logged("showQuickPick")
       /\ ~Logged("qshCommand")
       /\ projConfig = << >>
       /\ creations = << >>
       /\ uploads = << >>
       /\ script = << >>
       /\ commandResult = << >>

\* The run was given a folder of 11 characters and has ended on the error
C2_Witness ==
    /\ pc = "done"
    /\ projectEnabled
    /\ Len(folderOf(documentUri[1])) = 11
    /\ log = <<"showErrorMessage:folder">>

\* C3: once a container creation or a content push of the upload has
\* rejected, the run never executes the remote command, reports no
\* classification and signals no diagnostics refresh; and when it is over it
\* has shown the generic upload failure.
C3_RejectedUploadAbortsRun ==
    (\/ \E i \in 1..Len(creations) : creations[i] = "rejected"
     \/ \E i \in 1..Len(uploads) : uploads[i] = "rejected")
    => /\ ~Logged("qshCommand")
       /\ script = << >>
       /\ commandResult = << >>
       /\ ~Logged("showInformationMessage:successful")
       /\ ~Logged("showErrorMessage:notSuccessful")
       /\ ~Logged("showErrorMessage:internal")
       /\ ~Logged("refreshDiagnostics")
       /\ pc \in {"uploadQsys", "awaitUploads", "done"}
       /\ pc = "done" => Logged("showErrorMessage:upload")

\* Every container was created, the push of the second file was rejected and
\* the run ended on the upload failure
C3_Witness ==
    /\ pc = "done"
    /\ Len(uploads) = 2
    /\ \A i \in 1..Len(creations) : creations[i] = "fulfilled"
    /\ uploads[2] = "rejected"
    /\ Logged("showErrorMessage:upload")

C6_UnsupportedEnvironmentAborts ==
    (/\ chosenOptionName # << >>
     /\ \/ action.fileSystem # "qsys"
        \/ action.commandEnvironment # "qsys")
    => /\ ~Logged("qshCommand")
       /\ pc = "done" => \/ Logged("showErrorMessage:unsupported")
                         \/ Logged("showErrorMessage:upload")

\* C7: an exception thrown by the dispatch of the remote command is caught:
\* the run shows the action as failed, never as successful, and returns
\* normally.
C7_DispatchErrorIsCaught ==
    (commandResult # << >> /\ commandResult[1].settled = "rejected") =>
        /\ pc = "done"
        /\ Logged("showErrorMessage:internal")
        /\ ~Logged("showInformationMessage:successful")

\* qshCommand threw and the run returned
C7_Witness ==
    /\ commandResult # << >>
    /\ commandResult[1].settled = "rejected"
    /\ pc = "done"
    /\ Logged("qshCommand")

\* C8: the action selection is reached only with a configuration that exists
\* and has a non-empty buildLibrary and a non-empty sequence of actions; a
\* run whose configuration is missing or invalid, or in which no action is
\* chosen, performs no upload operation and no remote command.
C8_SelectionNeedsValidConfig ==
    /\ Logged("showQuickPick") =>
          /\ projConfig # << >>
          /\ projConfig[1].buildLibrary # << >>
          /\ Len(JSONparse(projConfig[1].text).actions) > 0
    /\ (\/ Logged("showInformationMessage:noConfig")
        \/ Logged("showWarningMessage:config")
        \/ projConfig = << >>
        \/ chosenOptionName = << >>)
       => /\ allUploads = << >>
          /\ creations = << >>
          /\ uploads = << >>
          /\ script = << >>
          /\ ~Logged("qshCommand")

\* The actions were offered for a valid configuration, none was chosen and
\* the run ended
C8_Witness ==
    /\ pc = "done"
    /\ Logged("showQuickPick")
    /\ chosenOptionName = << >>
    /\ log = <<"configExists", "getConfig", "showQuickPick">>

RECURSIVE OnePassFrom(_, _, _, _, _, _)
\* The one-pass simultaneous substitution of the four tokens: text a value
\* brings in is never read again
OnePassFrom(s, i, buildLibrary, folder, name, ext) ==
    IF i > Len(s) THEN << >>
    ELSE IF StartsAt(s, i, TokBUILDLIB)
    THEN buildLibrary \o OnePassFrom(s, i + Len(TokBUILDLIB), buildLibrary, folder, name, ext)
    ELSE IF StartsAt(s, i, TokFOLDER)
    THEN folder \o OnePassFrom(s, i + Len(TokFOLDER), buildLibrary, folder, name, ext)
    ELSE IF StartsAt(s, i, TokNAME)
    THEN name \o OnePassFrom(s, i + Len(TokNAME), buildLibrary, folder, name, ext)
    ELSE IF StartsAt(s, i, TokEXT)
    THEN ext \o OnePassFrom(s, i + Len(TokEXT), buildLibrary, folder, name, ext)
    ELSE <<s[i]>> \o OnePassFrom(s, i + 1, buildLibrary, folder, name, ext)

\* C9: the command built from a template equals the one-pass simultaneous
\* substitution of &BUILDLIB, &FOLDER, &NAME and &EXT.  Lines 292-295 rewrite
\* the whole string four times in a row, so this does not hold of the code.
C9_SimultaneousSubstitution ==
    tplOut # << >> =>
        tplOut[1] = OnePassFrom(tplIn.template, 1, toUpperCase(tplIn.buildLibrary),
                                tplIn.folder, tplIn.name, tplIn.ext)

\* C10: for a search list L of length n the list built has length n, its
\* i-th entry is the rewrite of the i-th entry of L counted from the end
\* (&BUILDLIB the build library, &CURLIB the current library, any other
\* entry itself), and the configured search list is as it was.
C10_LibraryListReversedAndRewritten ==
    liblOut # << >> =>
        LET L == liblIn.libraryList
            n == Len(L)
            Rewrite(library) ==
                CASE library = TokBUILDLIB -> liblIn.buildLibrary
                  [] library = TokCURLIB -> liblIn.currentLibrary
                  [] OTHER -> library
        IN  /\ Len(liblOut[1].libl) = n
            /\ \A i \in 0..(n - 1) : liblOut[1].libl[i + 1] = Rewrite(L[n - i])
            /\ liblOut[1].libraryList = L

\* [A, B, &CURLIB] with current library CUR gave [CUR, B, A]
C10_Witness ==
    /\ liblOut # << >>
    /\ liblIn.libraryList = << <<"A">>, <<"B">>, TokCURLIB >>
    /\ liblOut[1].libl = << <<"C","U","R">>, <<"B">>, <<"A">> >>
    /\ liblOut[1].libraryList = << <<"A">>, <<"B">>, TokCURLIB >>

\* C11: the upload set is the target followed by exactly the files of the
\* workspace listing, other than the target, whose upper-cased base name is
\* a substring of the upper-cased text of the target, in listing order; the
\* target occurs once.  (The scan is a function of its inputs, so a second
\* scan of the same inputs gives the same sequence.)  Lines 266-271 do not
\* set the target apart, so this does not hold of the code.
C11_TargetOnceThenNamedFiles ==
    callOut # << >> =>
        LET content == toUpperCase(callIn.docBytes)
            Named(file) ==
                /\ file # callIn.documentUri
                /\ includes(content, toUpperCase(pathParse(fsPath(file)).name))
        IN  callOut[1] = <<callIn.documentUri>> \o SelectSeq(callIn.fileList, Named)

\* C12: the actions offered for an extension are exactly the configured
\* actions whose extensions are undefined, are empty or contain the
\* extension, in the order of the configuration.  Line 250 asks a defined
\* extensions array to be non-empty, so this does not hold of the code.
C12_UndefinedEmptyOrContains ==
    callOut # << >> =>
        LET Qualifies(configured) ==
                \/ configured.extensions = << >>
                \/ configured.extensions[1] = << >>
                \/ \E i \in 1..Len(configured.extensions[1]) :
                        configured.extensions[1][i] = callIn.ext
            qualified == SelectSeq(callIn.actions, Qualifies)
        IN  callOut[1] = [i \in 1..Len(qualified) |-> qualified[i].name]

\* C13: the target is accepted if and only if the folder has at most
\* 10 characters, the name at most 10 and the extension at most 6; and the
\* error shown when it is refused names a field that is over its length.
C13_PassesIffWithinLengths ==
    callOut # << >> =>
        /\ callOut[1] = << >> <=>
              /\ Len(callIn.folder) <= 10
              /\ Len(callIn.name) <= 10
              /\ Len(callIn.ext) <= 6
        /\ callOut[1] \in {<< >>, <<"showErrorMessage:folder">>,
                            <<"showErrorMessage:name">>, <<"showErrorMessage:ext">>}
        /\ callOut[1] = <<"showErrorMessage:folder">> => Len(callIn.folder) > 10
        /\ callOut[1] = <<"showErrorMessage:name">> => Len(callIn.name) > 10
        /\ callOut[1] = <<"showErrorMessage:ext">> => Len(callIn.ext) > 6

\* A folder and a name of 10 characters pass, an extension of 7 is reported
C13_Witness ==
    /\ callOut = << <<"showErrorMessage:ext">> >>
    /\ Len(callIn.folder) = 10
    /\ Len(callIn.name) = 10
    /\ Len(callIn.ext) = 7

\* The upload sets the dependency scan can give for a target
UploadSets ==
    [uri \in Documents |->
        {dependencies(uri, toUpperCase(docBytes), fileList) :
            docBytes \in Contents, fileList \in FileLists}]

\* The locals r of an invocation are those of an invocation on its own: its
\* configuration is that of the files, the action chosen is one offered for
\* its own target, its upload set is one of its own target, its library
\* list is built from the libraryList of the connection and its own build
\* library, and what it has shown is what its own remote command returned
Alone(r) ==
    /\ r.pc = "idle" => r = idleRun
    /\ r.projConfig # << >> => r.projConfig = getConfig(jsonFile, envFile)
    /\ r.chosenOptionName # << >> =>
          \E offered \in {availableActions(r.projConfig[1], extOf(r.documentUri[1]))} :
              \E i \in 1..Len(offered) : offered[i] = r.chosenOptionName[1]
    /\ r.allUploads # << >> => r.allUploads \in UploadSets[r.documentUri[1]]
    /\ Len(r.creations) <= Len(r.allUploads)
    /\ Len(r.uploads) = Len(r.creations)
    /\ r.libl # << >> =>
          r.libl = BuildLibraryList(ConcurrentLibraryList, r.projConfig[1].buildLibrary,
                                    CurrentLibrary).libl
    /\ r.logCompileOutput # << >> <=> \E i \in 1..Len(r.log) : r.log[i] = "qshCommand"
    /\ r.commandResult # << >> =>
          /\ r.logCompileOutput # << >>
          /\ \E i \in 1..Len(r.log) :
                r.log[i] = (IF r.commandResult[1].settled = "rejected"
                            THEN "showErrorMessage:internal"
                            ELSE IF Classify(r.commandResult[1].code) = "success"
                            THEN "showInformationMessage:successful"
                            ELSE "showErrorMessage:notSuccessful")

\* C14: two invocations of RunAction at a time are independent.  Under
\* every interleaving of their steps the upload set, the library list, the
\* command dispatched and the outcome shown by each are those of an
\* invocation on its own with the same answers of the workspace and of the
\* remote system, libraryList of the connection is left as it was, and no
\* step of the one changes the locals of the other.
C14_ConcurrentRunsAreIndependent ==
    /\ [](Alone(run) /\ Alone(parked) /\ libraryList = ConcurrentLibraryList)
    /\ [][Switch \/ parked' = parked]_vars

\* Two invocations for two targets ended side by side: the one for
\* util.rpgle reported success, the one for cust.rpgle a failed upload
C14_Witness ==
    /\ pc = "done"
    /\ documentUri = <<"util">>
    /\ Logged("showInformationMessage:successful")
    /\ parked.pc = "done"
    /\ parked.documentUri = <<"cust">>
    /\ parked.log = <<"configExists", "getConfig", "showQuickPick",
                      "showErrorMessage:upload">>

\* C15: every run ends, and a run that stops on a failure (identifier too
\* long, configuration missing or invalid, upload failure, unsupported
\* environment, execution error, non-zero exit code) has shown an outcome
\* to the user before it ends, never ends in an unhandled fault, and retries
\* no step.  This is the part of the claim about how a run ends: no run
\* ends by throwing, a run that ended after its gate without a success and
\* without the user dismissing the choice has shown an error, a warning or
\* the missing-configuration notification, and the remote command was
\* dispatched at most once.  getConfig and configValid (lines 245-247) and
\* the reads of lines 258-260 are outside every try, so this does not hold
\* of the code.
C15_EveryFailureIsReported ==
    /\ pc # "threw"
    /\ (/\ pc = "done"
        /\ log # << >>
        /\ ~Logged("showInformationMessage:successful")
        /\ ~(Logged("showQuickPick") /\ chosenOptionName = << >>))
       => \E i \in 1..Len(log) :
              log[i] \in {"showErrorMessage:folder", "showErrorMessage:name",
                          "showErrorMessage:ext", "showErrorMessage:upload",
                          "showErrorMessage:unsupported",
                          "showErrorMessage:notSuccessful",
                          "showErrorMessage:internal",
                          "showWarningMessage:config",
                          "showInformationMessage:noConfig"}
    /\ Cardinality({i \in 1..Len(log) : log[i] = "qshCommand"}) <= 1
    /\ Len(creations) <= Len(allUploads)

\* C16: a run that reaches execution dispatches one remote script, of four
\* commands in this order: the default user libraries are removed from the
\* list (liblist -d), the current library is set (liblist -c), the library
\* list built for the run is added (liblist -a), and the command built is
\* the last one; the command built is in no other place of the script.
C16_SetupThenCommand ==
    /\ Cardinality({i \in 1..Len(log) : log[i] = "qshCommand"}) <= 1
    /\ ~Logged("qshCommand") => script = << >>
    /\ Logged("qshCommand") =>
          \E commands \in {script}, built \in {builtCommand} :
              /\ Len(commands) = 4
              /\ commands[1] = <<"l","i","b","l","i","s","t"," ","-","d"," ">>
                                  \o <<"Q","G","P","L"," ","Q","T","E","M","P">>
              /\ commands[2] = <<"l","i","b","l","i","s","t"," ","-","c"," ">>
                                  \o CurrentLibrary
              /\ commands[3] = <<"l","i","b","l","i","s","t"," ","-","a"," ">>
                                  \o join(libl, <<" ">>)
              /\ libl = BuildLibraryList(libraryList, projConfig[1].buildLibrary,
                                         CurrentLibrary).libl
              /\ \/ commands[4] = <<"s","y","s","t","e","m"," ","-","s"," ","\"">>
                                      \o built \o <<"\"">>
                 \/ commands[4] = <<"s","y","s","t","e","m"," "," ","\"">>
                                      \o built \o <<"\"">>
              /\ \A i \in 1..3 : ~includes(commands[i], built)

\* CRTBNDRPG for cust.rpgle was dispatched after the three liblist commands,
\* the list [A, B, &CURLIB] added as CUR B A
C16_Witness ==
    /\ pc = "qshCommand"
    /\ chosenOptionName = <<"Compile: CRTBNDRPG">>
    /\ documentUri = <<"cust">>
    /\ script # << >>
    /\ script[3] = <<"l","i","b","l","i","s","t"," ","-","a"," ","C","U","R"," ","B"," ","A">>
    /\ includes(script[4], <<"C","R","T","B","N","D","R","P","G"," ","P","G","M","(">>)

\* C17: for a file of the upload set the folder, the member name and the
\* source type of its container creation are derived from its own path by
\* the rules of the target (name of the parent directory, file stem in
\* upper case, extension without its leading separator), and its content
\* push addresses the library, folder and member of its container creation.
\* Lines 399 and 401 take the stem as it is and the extension with its dot,
\* so this does not hold of the code.
C17_MemberDerivedAsTarget ==
    callOut # << >> =>
        LET creation == callOut[1].paseCommand
            push == callOut[1].uploadMemberContent
            pathInfo == pathParse(TargetPath(callIn.folder, callIn.name, callIn.ext))
        IN  /\ creation.folder = pathBasename(pathInfo.dir)
            /\ creation.name = toUpperCase(pathInfo.name)
            /\ creation.extension = substring(pathInfo.ext, 1)
            /\ push.library = creation.library
            /\ push.folder = creation.folder
            /\ push.name = creation.name

\* The position of the first character c of s, 0 when there is none
FirstIndexOf(s, c) ==
    IF \E i \in 1..Len(s) : s[i] = c
    THEN CHOOSE i \in 1..Len(s) : s[i] = c /\ \A j \in 1..(i - 1) : s[j] # c
    ELSE 0

\* The KEY=VALUE lines of an overlay text: the lines that do not start with
\* # and hold "=", the key before the first "=" and the value after it
OverlayEntries(readStr) ==
    LET lines == split(readStr, "\n")
        IsEntry(line) ==
            /\ ~(Len(line) > 0 /\ line[1] = "#")
            /\ FirstIndexOf(line, "=") > 0
        kept == SelectSeq(lines, IsEntry)
    IN  [i \in 1..Len(kept) |->
            [key |-> SubSeq(kept[i], 1, FirstIndexOf(kept[i], "=") - 1),
             value |-> SubSeq(kept[i], FirstIndexOf(kept[i], "=") + 1, Len(kept[i]))]]

\* C18: after getConfig a value of the configuration that is equal to a key
\* of the overlay is replaced by the value of that key (of its last line,
\* when the key is given twice), any other value is as it was, and a line
\* that starts with # gives no key.  Stated here for the keys whose value
\* is not empty: line 120 leaves the value of the configuration when the
\* value of the key is the empty string, which is left aside.  Line 112
\* keeps of the value only what is before a second "=", so this does not
\* hold of the code.
C18_ValueOfMatchingKey ==
    callOut # << >> =>
        LET entries == OverlayEntries(callIn.readStr)
            matching == {i \in 1..Len(entries) : entries[i].key = callIn.value}
            last == CHOOSE i \in matching : \A j \in matching : j <= i
        IN  /\ matching = {} => callOut[1] = callIn.value
            /\ (matching # {} /\ entries[last].value # << >>) =>
                  callOut[1] = entries[last].value

C20_ProjectModeGate ==
    /\ ~projectEnabled
    /\ [][/\ projectEnabled => projectEnabled'
          /\ (~projectEnabled /\ projectEnabled') =>
                /\ init
                /\ workspaceFolders = 1
                /\ jsonFile # << >> \/ jsonFile' = <<"default">>]_vars
    /\ [](~projectEnabled =>
            /\ pc \in {"idle", "done"}
            /\ log = << >>
            /\ ~prompt
            /\ projConfig = << >>
            /\ chosenOptionName = << >>
            /\ allUploads = << >>
            /\ creations = << >>
            /\ uploads = << >>
            /\ script = << >>
            /\ commandResult = << >>)

\* RunAction was called for cust.rpgle with two workspace folders open,
\* projectEnabled false, and returned having done nothing
C20_Witness ==
    /\ ~projectEnabled
    /\ workspaceFolders = 2
    /\ jsonFile = <<"custom">>
    /\ pc = "done"
    /\ documentUri = <<"cust">>
    /\ log = << >>

====
